---- MODULE Spec2Model ----
(***************************************************************************)
(* Model of epicPlanner.py: the script builds a directed graph from the    *)
(* "blocks" links of an epic's issues, sorts it topologically, walks the   *)
(* sorted list to group the tickets into rounds, and prints the rounds.    *)
(*                                                                         *)
(* Ticket keys are opaque identifiers; they are modelled as the integers   *)
(* 1..MaxIssues (their order is the order sorted() gives the keys).        *)
(***************************************************************************)
EXTENDS Integers, Sequences, FiniteSets, TLC

\* Bounds of the model.
MaxIssues == 4
MaxLinks == 2
\* The largest epic of the runs that vary the statuses of the tickets.
MaxStatusIssues == 3
\* The most issues the search of populateRemainingEstimate.py returns.
MaxEstimateIssues == 2
\* The most files the cache directory holds for one key, the most pages a
\* Datadog answer spans, and the most requests one top-level call is
\* followed for.
MaxCacheFiles == 2
MaxPages == 2
MaxRequests == 6
\* The most applications the analysed teams own, and the most caller/target
\* pairs Datadog has seen.
MaxApps == 2
MaxCalls == 3
\* The most teams of the Teams sheet, and the most scorecard categories
\* Backstage has data for per team.
MaxTeams == 1
MaxCategories == 2

Keys == 1..MaxIssues
StatusKeys == 1..MaxStatusIssues
\* issue.fields.status.name
StatusNames == {"In Progress", "Done"}

\* The subsets of S with at most k elements.
RECURSIVE SubsetsUpTo(_, _)
SubsetsUpTo(S, k) ==
    IF k = 0 THEN {{}}
    ELSE LET P == SubsetsUpTo(S, k - 1)
         IN  P \cup {p \cup {x} : p \in P, x \in S}

VARIABLES
    issues,            \* keys of the issues the epic search returned (line 46);
                       \* the keys being opaque, an epic of n issues holds the
                       \* keys 1..n and the other keys lie outside the epic
    links,             \* their outward "blocks" links: <<k, o>> says issue k
                       \* has a link of type "blocks" whose outwardIssue is o
                       \* (links of another type or without an outwardIssue
                       \* add nothing to the graph, lines 54-55)
    transitive,        \* args.transitive
    graph,             \* the DiGraph: [nodes, edges]
    sorted_issues,     \* list(nx.topological_sort(graph))
    transitive_graph,  \* nx.transitive_closure(graph)
    rounds,            \* list of closed rounds
    current_round,     \* the round being accumulated
    pos,               \* position of the walk in sorted_issues (1-based)
    output,            \* what the script has printed so far
    raised,            \* the exception the script died with, or NoError
    pc,                \* position of the script
    run,               \* 1 for the first run of the script, 2 for a second run
    prev_rounds,       \* the round partition the first run produced
    jira_status,       \* issue.fields.status.name of every key, as Jira has it
    node_status        \* the 'status' attribute of the nodes that carry one

EmptyGraph == [nodes |-> {}, edges |-> {}]
NoError == [type |-> "none", names |-> {}]

plannerVars == <<issues, links, transitive, graph, sorted_issues, transitive_graph,
                 rounds, current_round, pos, output, raised, pc, run, prev_rounds,
                 jira_status, node_status>>

\* jiraToolsConfig.py, load_config, and the line of a script that builds the
\* Jira client from what load_config returned.
VARIABLES
    config_file,       \* ~/.jiraTools: NoFile, or the dictionary stored in it
    config,            \* what load_config returned, NotLoaded before
    prompts,           \* the questions load_config has asked with input()
    config_pc          \* "idle", "load", "client", "connected", "KeyError"

configVars == <<config_file, config, prompts, config_pc>>

\* populateRemainingEstimate.py from the search on.
VARIABLES
    pe_perform_update, \* args.perform_update
    pe_issues,         \* what jira_client.search_issues returns
    pe_pos,            \* position of the loop in issues (1-based)
    pe_update_calls,   \* the calls of issue.update made so far
    pe_output,         \* the report printed so far, per issue
    updated_count,
    skipped_count,
    pe_summary,        \* the summary lines, once printed
    pe_pc              \* "idle", "search", "loop", "done", "exit0", "exit1"

estimateVars == <<pe_perform_update, pe_issues, pe_pos, pe_update_calls, pe_output,
                  updated_count, skipped_count, pe_summary, pe_pc>>

NoFile == [exists |-> FALSE, data |-> <<>>]
NotLoaded == [loaded |-> FALSE]

\* serviceConsumerAnalysis.py, DatadogClient: the cache of one key and one
\* top-level call of query_service_consumers.
VARIABLES
    use_cache,           \* self.use_cache
    ignore_cache_expiry, \* self.ignore_cache_expiry
    cache_files,         \* the files requestCache/<cache_key>.*
    dd_now,              \* time.time()
    dd_lookup,           \* the last call of _get_cached_response: the files
                         \* it found, what it returned, what it printed
    dd_pages,            \* the number of pages of the server's answer
    retry_count,         \* the parameter of the current invocation
    dd_requests,         \* the requests of this top-level call, as answered
    cursor,              \* the pagination cursor, 0 for none
    all_consumers,
    failed_500_errors,
    dd_returned,         \* what the top-level call returned
    dd_earlier,          \* the top-level call for the same key before this
                         \* one: whether it saved to the cache, what it
                         \* returned; None when this is the first
    dd_pc                \* "idle", "cache call", "cache returned",
                         \* "enter", "page", "returned"

datadogVars == <<use_cache, ignore_cache_expiry, cache_files, dd_now, dd_lookup,
                 dd_pages, retry_count, dd_requests, cursor, all_consumers,
                 failed_500_errors, dd_returned, dd_earlier, dd_pc>>

\* serviceConsumerAnalysis.py, ServiceConsumerAnalyzer.analyze_all_teams.
VARIABLES
    an_apps,               \* the applications of attribution_data, in the
                           \* order the two loops visit them
    an_calls,              \* the <<target, caller>> pairs Datadog has seen
    skip_applications,
    exclude_team_requests,
    exclude_products,
    an_pos,                \* position of the loop in an_apps (1-based)
    an_queried,            \* the services query_service_consumers was called for
    an_result,             \* domain_consumers, system_consumers,
                           \* domain_details, system_details
    skipped,
    an_pc                  \* "idle", "loop", "returned"

analyzerVars == <<an_apps, an_calls, skip_applications, exclude_team_requests,
                  exclude_products, an_pos, an_queried, an_result, skipped, an_pc>>

\* The four aggregation structures, empty (lines 1337-1340).
EmptyAggregation ==
    [domain_consumers |-> <<>>, system_consumers |-> <<>>,
     domain_details |-> <<>>, system_details |-> <<>>]

\* standardTicketCreator.py, main and what it calls.
VARIABLES
    tc_create,             \* args.create
    tc_csv_file,           \* args.csv_file, "" when the option is not given
    tc_backstage_url,      \* whether the Config sheet holds the Backstage URL
    tc_teams,              \* the filtered team mapping, with the number of
                           \* categories Backstage has data for
    tc_team,               \* position of the loop over the teams (1-based)
    tc_category,           \* position of the loop over the categories (1-based)
    jira_calls,            \* the calls made on jira_client that change Jira
    all_created_tickets,   \* their number
    all_skipped_tickets,   \* their number
    total_dry_run_count,
    all_tickets_data,      \* the number of rows collected for the CSV file
    tc_pc                  \* "idle", "start", "teams", "done", "exported",
                           \* "cancelled", "connect failed"

creatorVars == <<tc_create, tc_csv_file, tc_backstage_url, tc_teams, tc_team,
                 tc_category, jira_calls, all_created_tickets, all_skipped_tickets,
                 total_dry_run_count, all_tickets_data, tc_pc>>

\* Python's None where a dictionary is expected.
None == [none |-> TRUE]
NoLookup == [files |-> {}, returned |-> None, log |-> "no call"]

\* The state of a script that is not running.
PlannerIdle ==
    /\ issues = {}
    /\ links = {}
    /\ transitive = FALSE
    /\ graph = EmptyGraph
    /\ sorted_issues = <<>>
    /\ transitive_graph = EmptyGraph
    /\ rounds = <<>>
    /\ current_round = <<>>
    /\ pos = 1
    /\ output = <<>>
    /\ raised = NoError
    /\ pc = "idle"
    /\ run = 1
    /\ prev_rounds = <<>>
    /\ jira_status = <<>>
    /\ node_status = <<>>

ConfigIdle ==
    /\ config_file = NoFile
    /\ config = NotLoaded
    /\ prompts = <<>>
    /\ config_pc = "idle"

EstimateIdle ==
    /\ pe_perform_update = FALSE
    /\ pe_issues = <<>>
    /\ pe_pos = 1
    /\ pe_update_calls = <<>>
    /\ pe_output = <<>>
    /\ updated_count = 0
    /\ skipped_count = 0
    /\ pe_summary = <<>>
    /\ pe_pc = "idle"

DatadogIdle ==
    /\ use_cache = TRUE
    /\ ignore_cache_expiry = FALSE
    /\ cache_files = {}
    /\ dd_now = 0
    /\ dd_lookup = NoLookup
    /\ dd_pages = 1
    /\ retry_count = 0
    /\ dd_requests = <<>>
    /\ cursor = 0
    /\ all_consumers = <<>>
    /\ failed_500_errors = <<>>
    /\ dd_returned = <<>>
    /\ dd_earlier = None
    /\ dd_pc = "idle"

AnalyzerIdle ==
    /\ an_apps = <<>>
    /\ an_calls = {}
    /\ skip_applications = {}
    /\ exclude_team_requests = FALSE
    /\ exclude_products = {}
    /\ an_pos = 1
    /\ an_queried = <<>>
    /\ an_result = EmptyAggregation
    /\ skipped = 0
    /\ an_pc = "idle"

CreatorIdle ==
    /\ tc_create = FALSE
    /\ tc_csv_file = ""
    /\ tc_backstage_url = FALSE
    /\ tc_teams = <<>>
    /\ tc_team = 1
    /\ tc_category = 1
    /\ jira_calls = <<>>
    /\ all_created_tickets = 0
    /\ all_skipped_tickets = 0
    /\ total_dry_run_count = 0
    /\ all_tickets_data = 0
    /\ tc_pc = "idle"

\* The scripts are separate programs: a step of one leaves the state of the
\* others alone, and a run of one starts with the others idle.
otherVars == <<configVars, estimateVars, datadogVars, analyzerVars, creatorVars>>
exceptConfig == <<plannerVars, estimateVars, datadogVars, analyzerVars, creatorVars>>
exceptEstimate == <<plannerVars, configVars, datadogVars, analyzerVars, creatorVars>>
exceptDatadog == <<plannerVars, configVars, estimateVars, analyzerVars, creatorVars>>
exceptAnalyzer == <<plannerVars, configVars, estimateVars, datadogVars, creatorVars>>
exceptCreator == <<plannerVars, configVars, estimateVars, datadogVars, analyzerVars>>
vars == <<plannerVars, configVars, estimateVars, datadogVars, analyzerVars, creatorVars>>
OthersIdle == ConfigIdle /\ EstimateIdle /\ DatadogIdle /\ AnalyzerIdle /\ CreatorIdle
ConfigOthersIdle == PlannerIdle /\ EstimateIdle /\ DatadogIdle /\ AnalyzerIdle /\ CreatorIdle
EstimateOthersIdle == PlannerIdle /\ ConfigIdle /\ DatadogIdle /\ AnalyzerIdle /\ CreatorIdle
DatadogOthersIdle == PlannerIdle /\ ConfigIdle /\ EstimateIdle /\ AnalyzerIdle /\ CreatorIdle
AnalyzerOthersIdle == PlannerIdle /\ ConfigIdle /\ EstimateIdle /\ DatadogIdle /\ CreatorIdle
CreatorOthersIdle == PlannerIdle /\ ConfigIdle /\ EstimateIdle /\ DatadogIdle /\ AnalyzerIdle

----------------------------------------------------------------------------
\* Helpers on sequences and graphs.

Range(s) == {s[j] : j \in 1..Len(s)}

\* graph.predecessors(n)
Predecessors(G, n) == {u \in G.nodes : <<u, n>> \in G.edges}

\* sorted(S) for a set of keys
RECURSIVE Sorted(_)
Sorted(S) ==
    IF S = {} THEN <<>>
    ELSE LET m == CHOOSE x \in S : \A y \in S : x <= y
         IN  <<m>> \o Sorted(S \ {m})

\* The loop that builds the graph: every issue becomes a node; a "blocks"
\* link to another key adds an edge, and add_edge adds the far node too.
BuildEdgesAll(ls) == ls
BuildEdges(ls) == {l \in ls : l[2] # l[1]}
BuildNodes(is, ls) == is \cup {l[2] : l \in BuildEdges(ls)}

\* Line 52: add_node stores the status of the issues of the epic; add_edge
\* (line 56) creates a far node that is not there yet without attributes.
BuildStatus(is, st) == [k \in is |-> st[k]]

\* nx.topological_sort: the orders it may yield.  A node can be yielded once
\* all of its predecessors have been; with a cycle no order completes, and
\* the set is empty.
RECURSIVE OrdersOf(_, _)
OrdersOf(nodes, edges) ==
    IF nodes = {} THEN {<<>>}
    ELSE LET free == {n \in nodes : \A e \in edges : ~(e[2] = n /\ e[1] \in nodes)}
         IN  UNION {{<<n>> \o s : s \in OrdersOf(nodes \ {n}, edges)} : n \in free}

\* A sort that never notices a cycle: any arrangement of the nodes.
TopologicalOrdersUnchecked(G) == OrdersOf(G.nodes, {})

TopologicalOrders(G) == OrdersOf(G.nodes, G.edges)

\* nx.transitive_closure(G): a new graph with an edge u -> v for every path
\* of at least one edge from u to v.
Compose(E) == {<<p[1][1], p[2][2]>> : p \in {q \in E \X E : q[1][2] = q[2][1]}}

RECURSIVE ClosureEdges(_)
ClosureEdges(E) ==
    LET E2 == E \cup Compose(E)
    IN  IF E2 = E THEN E ELSE ClosureEdges(E2)

TransitiveClosure(G) == [nodes |-> G.nodes, edges |-> ClosureEdges(G.edges)]

\* The test of line 68 with the current round counted among the rounds.
CanJoinAnyPlaced(rnds, cur, G, issue_key) ==
    \/ cur = <<>>
    \/ \A dep \in Predecessors(G, issue_key) :
          \/ dep \in Range(cur)
          \/ \E r \in 1..Len(rnds) : dep \in Range(rnds[r])

\* Line 68: the ticket joins the current round when the current round is
\* empty or every predecessor is in a round already closed.
CanJoinCurrentRound(rnds, cur, G, issue_key) ==
    \/ cur = <<>>
    \/ \A dep \in Predecessors(G, issue_key) :
          \E r \in 1..Len(rnds) : dep \in Range(rnds[r])

----------------------------------------------------------------------------
Init ==
    /\ issues \in {1..n : n \in 0..MaxIssues}
    /\ links \in SubsetsUpTo(issues \X Keys, MaxLinks)
    /\ transitive \in BOOLEAN
    /\ graph = EmptyGraph
    /\ sorted_issues = <<>>
    /\ transitive_graph = EmptyGraph
    /\ rounds = <<>>
    /\ current_round = <<>>
    /\ pos = 1
    /\ output = <<>>
    /\ raised = NoError
    /\ pc = "build"
    /\ run = 1
    /\ prev_rounds = <<>>
    /\ jira_status = [k \in Keys |-> "In Progress"]
    /\ node_status = <<>>
    /\ OthersIdle

\* Lines 49-56.
BuildGraph ==
    /\ pc = "build"
    /\ graph' = [nodes |-> BuildNodes(issues, links), edges |-> BuildEdges(links)]
    /\ node_status' = BuildStatus(issues, jira_status)
    /\ pc' = "sort"
    /\ UNCHANGED <<issues, links, transitive, sorted_issues, transitive_graph,
                   rounds, current_round, pos, output, raised, run, prev_rounds>>
    /\ UNCHANGED <<jira_status, otherVars>>

\* Lines 58-59.  networkx raises NetworkXUnfeasible ("Graph contains a cycle
\* or graph changed during iteration") when no order exists; the message
\* names no node, and the script does not catch it.
TopologicalSort ==
    /\ pc = "sort"
    /\ \/ /\ TopologicalOrders(graph) = {}
          /\ raised' = [type |-> "NetworkXUnfeasible", names |-> {}]
          /\ pc' = "failed"
          /\ UNCHANGED sorted_issues
       \/ /\ \E order \in TopologicalOrders(graph) : sorted_issues' = order
          /\ pc' = "closure"
          /\ UNCHANGED raised
    /\ UNCHANGED <<issues, links, transitive, graph, transitive_graph,
                   rounds, current_round, pos, output, run, prev_rounds>>
    /\ UNCHANGED <<jira_status, node_status, otherVars>>

\* A closure computed in place, on the graph the walk reads.
ComputeClosureInPlace ==
    /\ pc = "closure"
    /\ transitive_graph' = TransitiveClosure(graph)
    /\ graph' = TransitiveClosure(graph)
    /\ rounds' = <<>>
    /\ current_round' = <<>>
    /\ pos' = 1
    /\ pc' = "walk"
    /\ UNCHANGED <<issues, links, transitive, sorted_issues, output,
                   raised, run, prev_rounds>>
    /\ UNCHANGED <<jira_status, node_status, otherVars>>

\* Lines 61-66: the closure is a new graph; the walk starts with no rounds.
ComputeClosure ==
    /\ pc = "closure"
    /\ transitive_graph' = TransitiveClosure(graph)
    /\ rounds' = <<>>
    /\ current_round' = <<>>
    /\ pos' = 1
    /\ pc' = "walk"
    /\ UNCHANGED <<issues, links, transitive, graph, sorted_issues, output,
                   raised, run, prev_rounds>>
    /\ UNCHANGED <<jira_status, node_status, otherVars>>

\* The loop of lines 67-72 where a ticket joins the current round only when
\* that round is empty: no two tickets share a round.
WalkStepNoShare ==
    /\ pc = "walk"
    /\ pos <= Len(sorted_issues)
    /\ LET issue_key == sorted_issues[pos]
       IN  IF current_round = <<>>
           THEN /\ current_round' = Append(current_round, issue_key)
                /\ UNCHANGED rounds
           ELSE /\ rounds' = Append(rounds, current_round)
                /\ current_round' = <<issue_key>>
    /\ pos' = pos + 1
    /\ UNCHANGED <<issues, links, transitive, graph, sorted_issues,
                   transitive_graph, output, raised, pc, run, prev_rounds>>
    /\ UNCHANGED <<jira_status, node_status, otherVars>>

\* Lines 67-72: one iteration of the round-building loop.
WalkStep ==
    /\ pc = "walk"
    /\ pos <= Len(sorted_issues)
    /\ LET issue_key == sorted_issues[pos]
       IN  IF CanJoinCurrentRound(rounds, current_round, graph, issue_key)
           THEN /\ current_round' = Append(current_round, issue_key)
                /\ UNCHANGED rounds
           ELSE /\ rounds' = Append(rounds, current_round)
                /\ current_round' = <<issue_key>>
    /\ pos' = pos + 1
    /\ UNCHANGED <<issues, links, transitive, graph, sorted_issues,
                   transitive_graph, output, raised, pc, run, prev_rounds>>
    /\ UNCHANGED <<jira_status, node_status, otherVars>>

\* The end of the walk without lines 73-74: the last round is dropped.
FinishWalkNoAppend ==
    /\ pc = "walk"
    /\ pos > Len(sorted_issues)
    /\ pc' = "report"
    /\ UNCHANGED <<issues, links, transitive, graph, sorted_issues,
                   transitive_graph, rounds, current_round, pos, output, raised,
                   run, prev_rounds>>
    /\ UNCHANGED <<jira_status, node_status, otherVars>>

\* Lines 73-74: the last round is closed when the loop is over.
FinishWalk ==
    /\ pc = "walk"
    /\ pos > Len(sorted_issues)
    /\ rounds' = IF current_round # <<>> THEN Append(rounds, current_round) ELSE rounds
    /\ pc' = "report"
    /\ UNCHANGED <<issues, links, transitive, graph, sorted_issues,
                   transitive_graph, current_round, pos, output, raised, run,
                   prev_rounds>>
    /\ UNCHANGED <<jira_status, node_status, otherVars>>

\* Lines 84-85: the two dependency lists of a ticket line.
Dependencies(G, issue_key) == Sorted(Predecessors(G, issue_key))

\* Line 85 without the subtraction of the direct dependencies.
TransitiveDependenciesAll(G, TG, flag, issue_key) ==
    IF ~flag THEN <<>>
    ELSE Sorted(Predecessors(TG, issue_key))

TransitiveDependencies(G, TG, flag, issue_key) ==
    IF ~flag THEN <<>>
    ELSE Sorted(Predecessors(TG, issue_key) \ Range(Dependencies(G, issue_key)))

\* str.lower() on the status names of the model.
Lower(name) ==
    CASE name = "Done" -> "done"
      [] name = "In Progress" -> "in progress"
      [] name = "Y" -> "y"
      [] name = "Product A" -> "product a"
      [] name = "Product B" -> "product b"
      [] name = "External/Unknown" -> "external/unknown"
      [] OTHER -> name

\* The comparison without lower(): the status name as Jira spells it.
statusIsDoneCaseSensitive(check_status) ==
    check_status \in {"closed", "deployed", "done", "resolved"}

\* jiraToolsConfig.py, lines 33-35.
statusIsDone(check_status) ==
    Lower(check_status) \in {"closed", "deployed", "done", "resolved"}

\* Lines 11-23: every dependency in green when the status recorded on its
\* node is done, in red otherwise.
createDependencyOutput(recorded, listOfDependencies) ==
    [j \in 1..Len(listOfDependencies) |->
        [color |-> IF statusIsDone(recorded[listOfDependencies[j]])
                   THEN "GREEN" ELSE "RED",
         key |-> listOfDependencies[j]]]

\* Lines 25-26: no red in the rendered dependencies.
checkDependenciesResolved(strDependencies) ==
    \A j \in 1..Len(strDependencies) : strDependencies[j].color # "RED"

\* Lines 82-94 for one round: the header line and one line per ticket.  The
\* ticket is fetched again (line 86) for its own status.
TicketLine(round_num, issue_key) ==
    LET dependencies == Dependencies(graph, issue_key)
        transitive_dependencies ==
            TransitiveDependencies(graph, transitive_graph, transitive, issue_key)
        outputDependencies == createDependencyOutput(node_status, dependencies)
    IN  [kind |-> "ticket", round |-> round_num, key |-> issue_key,
         dependencies |-> dependencies,
         transitive_dependencies |-> transitive_dependencies,
         outputDependencies |-> outputDependencies,
         outputTransitiveDependencies |->
             createDependencyOutput(node_status, transitive_dependencies),
         colorIssue |-> IF statusIsDone(jira_status[issue_key])
                        THEN "GREEN" ELSE "CYAN",
         styleIssue |-> IF checkDependenciesResolved(outputDependencies)
                        THEN "BRIGHT" ELSE ""]

RoundLines(round_num) ==
    <<[kind |-> "round", round |-> round_num]>> \o
    [j \in 1..Len(rounds[round_num]) |-> TicketLine(round_num, rounds[round_num][j])]

RECURSIVE ReportLines(_)
ReportLines(n) == IF n = 0 THEN <<>> ELSE ReportLines(n - 1) \o RoundLines(n)

\* Lines 76-94: the legend, then every round.
Report ==
    /\ pc = "report"
    /\ output' = <<[kind |-> "legend"]>> \o ReportLines(Len(rounds))
    /\ pc' = "done"
    /\ UNCHANGED <<issues, links, transitive, graph, sorted_issues,
                   transitive_graph, rounds, current_round, pos, raised, run,
                   prev_rounds>>
    /\ UNCHANGED <<jira_status, node_status, otherVars>>

Next == BuildGraph \/ TopologicalSort \/ ComputeClosure \/ WalkStep \/ FinishWalk \/ Report

Spec == Init /\ [][Next]_vars

\* The same script on epics whose tickets are in any of the statuses.
InitStatus ==
    /\ issues \in {1..n : n \in 0..MaxStatusIssues}
    /\ links \in SubsetsUpTo(issues \X StatusKeys, MaxLinks)
    /\ transitive \in BOOLEAN
    /\ graph = EmptyGraph
    /\ sorted_issues = <<>>
    /\ transitive_graph = EmptyGraph
    /\ rounds = <<>>
    /\ current_round = <<>>
    /\ pos = 1
    /\ output = <<>>
    /\ raised = NoError
    /\ pc = "build"
    /\ run = 1
    /\ prev_rounds = <<>>
    /\ jira_status \in [StatusKeys -> StatusNames]
    /\ node_status = <<>>
    /\ OthersIdle

SpecStatus == InitStatus /\ [][Next]_vars

\* A second run of the script on the same search result, hence on the
\* identical graph; the partition of the first run is kept for comparison.
RoundSets(rnds) == [r \in 1..Len(rnds) |-> Range(rnds[r])]

Rerun ==
    /\ pc = "done"
    /\ run = 1
    /\ prev_rounds' = RoundSets(rounds)
    /\ run' = 2
    /\ graph' = EmptyGraph
    /\ node_status' = <<>>
    /\ sorted_issues' = <<>>
    /\ transitive_graph' = EmptyGraph
    /\ rounds' = <<>>
    /\ current_round' = <<>>
    /\ pos' = 1
    /\ output' = <<>>
    /\ pc' = "build"
    /\ UNCHANGED <<issues, links, transitive, raised>>
    /\ UNCHANGED <<jira_status, otherVars>>

NextRerun == Next \/ Rerun

SpecRerun == Init /\ [][NextRerun]_vars

----------------------------------------------------------------------------
\* Vocabulary of the properties.

\* The nodes with a directed path of at least one edge to n.
RECURSIVE AncestorsFrom(_, _)
AncestorsFrom(G, S) ==
    LET S2 == S \cup UNION {Predecessors(G, w) : w \in S}
    IN  IF S2 = S THEN S ELSE AncestorsFrom(G, S2)

Ancestors(G, n) == AncestorsFrom(G, Predecessors(G, n))

OnCycle(G, n) == n \in Ancestors(G, n)
HasCycle(G) == \E n \in G.nodes : OnCycle(G, n)

Max(S) == CHOOSE x \in S : \A y \in S : y <= x

\* The rounds as they stand: the closed ones and, during the walk, the one
\* being accumulated.
RoundsSoFar ==
    IF pc = "walk" /\ current_round # <<>> THEN Append(rounds, current_round) ELSE rounds

\* The rounds in which key n stands, and how often it stands in round r.
RoundsOf(n) == {r \in 1..Len(RoundsSoFar) : n \in Range(RoundsSoFar[r])}
Occurrences(n, r) == Cardinality({j \in 1..Len(RoundsSoFar[r]) : RoundsSoFar[r][j] = n})

Placed(n) == RoundsOf(n) # {}
RoundIndex(n) == IF Placed(n) THEN Max(RoundsOf(n)) ELSE 0

WalkDone == pc \in {"report", "done"}

\* Number of nodes on a longest path that ends in n (acyclic graphs).
RECURSIVE Depth(_, _)
Depth(G, n) == 1 + Max({0} \cup {Depth(G, p) : p \in Predecessors(G, n)})

LongestPath(G) == Max({0} \cup {Depth(G, n) : n \in G.nodes})

TicketLines == {output[j] : j \in {k \in 1..Len(output) : output[k].kind = "ticket"}}

----------------------------------------------------------------------------
\* C1: dependency satisfaction.  At every moment of the walk and after it,
\* for every edge u -> v whose v has been placed in a round, u has been
\* placed too and stands in a strictly earlier round.
DependencySatisfaction ==
    \A e \in graph.edges :
        Placed(e[2]) => Placed(e[1]) /\ RoundIndex(e[1]) < RoundIndex(e[2])

\* A finished run on a chain of three tickets, which takes three rounds.
DependencySatisfactionWitness ==
    /\ pc = "done"
    /\ Len(rounds) = 3
    /\ \E e, f \in graph.edges : e[2] = f[1]

\* C2: coverage.  Once the walk is over the rounds partition the node set:
\* every node of the graph stands at exactly one position of exactly one
\* round, and every key in a round is a node of the graph.
Coverage ==
    WalkDone =>
        /\ \A n \in graph.nodes :
               \E r \in 1..Len(rounds) : RoundsOf(n) = {r} /\ Occurrences(n, r) = 1
        /\ \A r \in 1..Len(rounds) : Range(rounds[r]) \subseteq graph.nodes

\* A finished run with several rounds, one of whose nodes entered the graph
\* only as the far end of a link.
CoverageWitness ==
    /\ pc = "done"
    /\ Len(rounds) >= 2
    /\ graph.nodes \ issues # {}

\* C3: canonical layering.  The round of every node is one more than the
\* greatest round of its direct predecessors, and 1 when it has none.
CanonicalLayering ==
    WalkDone =>
        \A n \in graph.nodes :
            RoundIndex(n) = 1 + Max({0} \cup {RoundIndex(p) : p \in Predecessors(graph, n)})

\* C4: minimum round count.  The number of rounds is the number of nodes on
\* a longest dependency path of the graph.
MinimumRoundCount == WalkDone => Len(rounds) = LongestPath(graph)

\* C5: first round.  For a graph with at least one node, round 1 holds
\* exactly the nodes without predecessors.
FirstRoundIsSources ==
    (WalkDone /\ graph.nodes # {}) =>
        Range(rounds[1]) = {n \in graph.nodes : Predecessors(graph, n) = {}}

\* C6: cycle detection.  Once a graph with a cycle is built, the script gets
\* no further than the sort: it is about to sort or has died there with the
\* error of the sort, and no round has been started, closed or printed.
CycleDetection ==
    (pc # "build" /\ HasCycle(graph)) =>
        /\ pc \in {"sort", "failed"}
        /\ pc = "failed" => raised.type = "NetworkXUnfeasible"
        /\ sorted_issues = <<>>
        /\ rounds = <<>>
        /\ current_round = <<>>
        /\ output = <<>>

\* The script has died on a two-ticket cycle.
CycleDetectionWitness ==
    /\ pc = "failed"
    /\ \E e \in graph.edges : <<e[2], e[1]>> \in graph.edges

\* C7: cycle error content.  The error the script dies with names at least
\* one node that lies on a cycle.
CycleErrorNamesNode ==
    pc = "failed" => \E n \in raised.names : OnCycle(graph, n)

\* C8: determinism.  A second run on the identical graph ends with the same
\* sets of tickets in the same round order as the first.
Determinism ==
    (run = 2 /\ pc = "done") => RoundSets(rounds) = prev_rounds

\* The walk as a function of the graph and the sorted list alone.
RECURSIVE WalkFrom(_, _, _, _, _)
WalkFrom(G, order, k, rnds, cur) ==
    IF k > Len(order)
    THEN IF cur # <<>> THEN Append(rnds, cur) ELSE rnds
    ELSE IF cur = <<>> \/ Predecessors(G, order[k]) \subseteq UNION {Range(rnds[r]) : r \in 1..Len(rnds)}
         THEN WalkFrom(G, order, k + 1, rnds, Append(cur, order[k]))
         ELSE WalkFrom(G, order, k + 1, Append(rnds, cur), <<order[k]>>)

BuiltGraph == [nodes |-> BuildNodes(issues, links), edges |-> BuildEdges(links)]

\* C9: the transitive annotation has no effect on scheduling.  From the
\* moment the graph is built it stays the graph the links describe, closure
\* or not, and the rounds are those the walk gives for that graph and the
\* sorted list, whether --transitive was given or not.
TransitiveNoEffect ==
    /\ pc # "build" => graph = BuiltGraph
    /\ WalkDone => rounds = WalkFrom(BuiltGraph, sorted_issues, 1, <<>>, <<>>)

\* A finished run with --transitive whose closure has an edge the graph
\* does not have.
TransitiveNoEffectWitness ==
    /\ pc = "done"
    /\ transitive
    /\ transitive_graph.edges # graph.edges
    /\ Len(rounds) >= 2

\* C10: transitive-only annotation.  With --transitive every ticket line
\* lists as its dependencies the direct predecessors and as its transitive
\* set the ancestors that are not direct predecessors; the transitive set
\* holds neither the ticket nor a direct predecessor.
TransitiveOnly ==
    \A line \in TicketLines :
        /\ Range(line.dependencies) = Predecessors(graph, line.key)
        /\ transitive =>
            /\ Range(line.transitive_dependencies) =
                   Ancestors(graph, line.key) \ Predecessors(graph, line.key)
            /\ line.key \notin Range(line.transitive_dependencies)
            /\ Range(line.transitive_dependencies) \cap Range(line.dependencies) = {}

\* The chain A -> B -> C without an edge A -> C, printed with --transitive:
\* the line of C lists B as direct and A as transitive only.
TransitiveOnlyWitness ==
    /\ pc = "done"
    /\ transitive
    /\ graph.edges = {<<1, 2>>, <<2, 3>>}
    /\ \E line \in TicketLines :
           /\ line.key = 3
           /\ line.dependencies = <<2>>
           /\ line.transitive_dependencies = <<1>>

----------------------------------------------------------------------------
\* jiraToolsConfig.py: load_config, as the scripts call it before they build
\* the Jira client.  A string is the sequence of its parts, so that the
\* prefix test and the concatenation of lines 15-16 are computed.

ConfigKeys == {"jira_server", "personal_access_token", "backstageUrl", "theme"}
CredentialKeys == {"jira_server", "personal_access_token"}

\* The value a key has in a stored file.
Stored(key) ==
    CASE key = "jira_server" -> <<"https://", "jira.stored.example">>
      [] key = "personal_access_token" -> <<"stored-token">>
      [] OTHER -> <<"value">>

\* What the user may type at the two prompts.
TypedServers ==
    {<<"https://", "jira.typed.example">>, <<"jira.typed.example">>,
     <<"http://", "jira.typed.example">>, <<>>}
TypedTokens == {<<"typed-token">>, <<"other-token">>, <<>>}

\* jira_server.startswith("https://")
StartsWithHttps(str) == Len(str) > 0 /\ str[1] = "https://"

\* Lines 15-16.
EnsureHttps(jira_server) ==
    IF ~StartsWithHttps(jira_server) THEN <<"https://">> \o jira_server
    ELSE jira_server

\* Lines 21-22: config[key] = value on a dictionary.
DictSet(dict, key, value) ==
    [k \in DOMAIN dict \cup {key} |-> IF k = key THEN value ELSE dict[k]]

\* Lines 12-25 with the answers typed at the prompts: the config returned.
Prompted(stored, jira_server, personal_access_token) ==
    DictSet(DictSet(stored, "jira_server", EnsureHttps(jira_server)),
            "personal_access_token", personal_access_token)

InitConfig ==
    /\ config_file \in {NoFile} \cup
           {[exists |-> TRUE, data |-> [k \in S |-> Stored(k)]] : S \in SUBSET ConfigKeys}
    /\ config = NotLoaded
    /\ prompts = <<>>
    /\ config_pc = "load"
    /\ ConfigOthersIdle

\* Lines 8-11 and 25, the file holds both credentials: it is returned as is.
LoadStored ==
    /\ config_pc = "load"
    /\ config_file.exists
    /\ CredentialKeys \subseteq DOMAIN config_file.data
    /\ config' = config_file.data
    /\ config_pc' = "client"
    /\ UNCHANGED <<config_file, prompts, exceptConfig>>

\* Lines 12-25, the file lacks a credential: both are asked for, stored in
\* the dictionary, saved (lines 29-31) and returned.
LoadPrompted ==
    /\ config_pc = "load"
    /\ config_file.exists
    /\ ~(CredentialKeys \subseteq DOMAIN config_file.data)
    /\ \E jira_server \in TypedServers, personal_access_token \in TypedTokens :
          /\ prompts' = <<[question |-> "Enter your JIRA server URL: ",
                           answer |-> jira_server],
                          [question |-> "Enter your JIRA personal access token: ",
                           answer |-> personal_access_token]>>
          /\ config' = Prompted(config_file.data, jira_server, personal_access_token)
          /\ config_file' = [exists |-> TRUE, data |-> config']
    /\ config_pc' = "client"
    /\ UNCHANGED exceptConfig

\* Lines 26-27, no file: the empty dictionary is returned, nothing is asked.
LoadNoFile ==
    /\ config_pc = "load"
    /\ ~config_file.exists
    /\ config' = <<>>
    /\ config_pc' = "client"
    /\ UNCHANGED <<config_file, prompts, exceptConfig>>

\* The caller (epicPlanner.py line 38 and the same line of the other
\* scripts): config["jira_server"] and config["personal_access_token"].
CreateClient ==
    /\ config_pc = "client"
    /\ config_pc' = IF CredentialKeys \subseteq DOMAIN config
                    THEN "connected" ELSE "KeyError"
    /\ UNCHANGED <<config_file, config, prompts, exceptConfig>>

NextConfig == LoadStored \/ LoadPrompted \/ LoadNoFile \/ CreateClient

SpecConfig == InitConfig /\ [][NextConfig]_vars

\* The credentials were in the file when load_config started: a file that
\* load_config did not write (it asked nothing) and that holds both.
CredentialsWereStored ==
    /\ prompts = <<>>
    /\ config_file.exists
    /\ CredentialKeys \subseteq DOMAIN config_file.data

\* C16: load_config asks for the credentials whenever they are not stored,
\* the file being absent or lacking a key, so the configuration it returns
\* always holds jira_server and personal_access_token.
ConfigHasCredentials ==
    config_pc \in {"client", "connected", "KeyError"} =>
        /\ CredentialKeys \subseteq DOMAIN config
        /\ CredentialsWereStored \/ prompts # <<>>

----------------------------------------------------------------------------
\* C11: the constructed graph has no self-loop: a "blocks" link from an issue
\* to itself adds no edge.
NoSelfLoops == \A e \in graph.edges : e[1] # e[2]

NoSelfLoopsWitness ==
    /\ pc = "done"
    /\ \E l \in links : l[1] = l[2]
    /\ graph.edges # {}

\* C12: once the graph is built, every node carries a status, the nodes that
\* were added only as the outward end of a link included.
NodesCarryStatus ==
    pc \notin {"idle", "build"} => graph.nodes \subseteq DOMAIN node_status

\* C13: on a graph with at least one node and without edges the walk gives
\* exactly one round, and that round holds every node, whatever order the
\* sort produced.
EdgeFreeOneRound ==
    (WalkDone /\ graph.nodes # {} /\ graph.edges = {}) =>
        /\ Len(rounds) = 1
        /\ Range(rounds[1]) = graph.nodes

EdgeFreeOneRoundWitness ==
    /\ WalkDone
    /\ graph.edges = {}
    /\ Cardinality(graph.nodes) >= 3
    /\ sorted_issues # Sorted(graph.nodes)

\* C19: every ticket line follows the legend: a done ticket is bright green,
\* a ticket that is not done and has no unresolved direct dependency is
\* bright cyan, a ticket that is not done and has one is dim cyan.
ReportLegend ==
    \A j \in 1..Len(output) :
        output[j].kind = "ticket" =>
            LET line == output[j]
                done == statusIsDone(jira_status[line.key])
                ready == \A dep \in Predecessors(graph, line.key) :
                             statusIsDone(jira_status[dep])
            IN  /\ done => (line.colorIssue = "GREEN" /\ line.styleIssue = "BRIGHT")
                /\ (~done /\ ready) =>
                       (line.colorIssue = "CYAN" /\ line.styleIssue = "BRIGHT")
                /\ (~done /\ ~ready) =>
                       (line.colorIssue = "CYAN" /\ line.styleIssue = "")

\* The status names of the model that spell, in any case, one of closed,
\* deployed, done, resolved.
DoneStatusNames == {"Done"}

\* The colours of a rendered dependency list follow the recorded statuses.
ColoursFollowStatus(rendered) ==
    \A d \in 1..Len(rendered) :
        /\ rendered[d].color \in {"GREEN", "RED"}
        /\ rendered[d].color = "GREEN" <=> node_status[rendered[d].key] \in DoneStatusNames

----------------------------------------------------------------------------
\* populateRemainingEstimate.py.  None is the string "None"; an issue without
\* timetracking has no originalEstimate to read.

EstimateIssueKinds ==
    {i \in [story_points : {"None", "3"}, has_timetracking : BOOLEAN,
            originalEstimate : {"None", "1d"}] :
        ~i.has_timetracking => i.originalEstimate = "None"}

RECURSIVE SeqsUpTo(_, _)
SeqsUpTo(S, n) ==
    IF n = 0 THEN {<<>>}
    ELSE LET shorter == SeqsUpTo(S, n - 1)
         IN  shorter \cup {Append(q, x) : q \in {r \in shorter : Len(r) = n - 1}, x \in S}

\* Lines 114-117.
OriginalEstimate(issue) ==
    IF issue.has_timetracking THEN issue.originalEstimate ELSE "None"

\* Lines 120 and 123 with the dry run of line 135 left out: an issue that
\* has both values is updated whatever args.perform_update says.
BranchNoDryRun(issue, perform_update) ==
    IF issue.story_points # "None" /\ OriginalEstimate(issue) # "None"
    THEN "update"
    ELSE "skipped"

\* Lines 120, 123 and 135: what the loop does with an issue.
Branch(issue, perform_update) ==
    IF issue.story_points # "None" /\ OriginalEstimate(issue) # "None"
    THEN IF perform_update THEN "update" ELSE "would set"
    ELSE "skipped"

\* Lines 140-145.
SkipReason(issue) ==
    IF issue.story_points = "None" THEN "no story points"
    ELSE IF OriginalEstimate(issue) # "None" THEN "already has original estimate"
    ELSE "unknown reason"

\* How Jira may answer the update of one issue: at once, or with a 429 and
\* then to the one retry, or with another error.
UpdateAnswers == {"ok", "429, ok", "429, error", "error"}

\* Lines 18-32: the calls of issue.update that safe_jira_update makes.
UpdateCalls(n, fields, answer) ==
    LET call == [issue |-> n, fields |-> fields]
    IN  IF answer \in {"429, ok", "429, error"} THEN <<call, call>> ELSE <<call>>

InitEstimate ==
    /\ pe_perform_update \in BOOLEAN
    /\ pe_issues \in SeqsUpTo(EstimateIssueKinds, MaxEstimateIssues)
    /\ pe_pos = 1
    /\ pe_update_calls = <<>>
    /\ pe_output = <<>>
    /\ updated_count = 0
    /\ skipped_count = 0
    /\ pe_summary = <<>>
    /\ pe_pc = "search"
    /\ EstimateOthersIdle

\* Lines 97-99: the search raises JIRAError.
SearchFails ==
    /\ pe_pc = "search"
    /\ pe_pc' = "exit1"
    /\ UNCHANGED <<pe_perform_update, pe_issues, pe_pos, pe_update_calls, pe_output,
                   updated_count, skipped_count, pe_summary, exceptEstimate>>

\* Lines 94-107: the search answers; without issues the script ends.
Search ==
    /\ pe_pc = "search"
    /\ pe_pc' = IF Len(pe_issues) = 0 THEN "exit0" ELSE "loop"
    /\ UNCHANGED <<pe_perform_update, pe_issues, pe_pos, pe_update_calls, pe_output,
                   updated_count, skipped_count, pe_summary, exceptEstimate>>

\* Lines 109-150: one iteration of the loop.
ProcessIssue ==
    /\ pe_pc = "loop"
    /\ pe_pos <= Len(pe_issues)
    /\ LET issue == pe_issues[pe_pos]
           estimate_value == OriginalEstimate(issue)
           branch == Branch(issue, pe_perform_update)
       IN  CASE branch = "update" ->
                  \E answer \in UpdateAnswers :
                     /\ pe_update_calls' = pe_update_calls \o
                            UpdateCalls(pe_pos, [remainingEstimate |-> estimate_value], answer)
                     /\ IF answer \in {"ok", "429, ok"}
                        THEN /\ pe_output' = Append(pe_output,
                                    [issue |-> pe_pos, kind |-> "set", text |-> estimate_value])
                             /\ updated_count' = updated_count + 1
                             /\ UNCHANGED skipped_count
                        ELSE /\ pe_output' = Append(pe_output,
                                    [issue |-> pe_pos, kind |-> "error", text |-> answer])
                             /\ skipped_count' = skipped_count + 1
                             /\ UNCHANGED updated_count
              [] branch = "would set" ->
                  /\ pe_output' = Append(pe_output,
                         [issue |-> pe_pos, kind |-> "would set", text |-> estimate_value])
                  /\ updated_count' = updated_count + 1
                  /\ UNCHANGED <<pe_update_calls, skipped_count>>
              [] OTHER ->
                  /\ pe_output' = Append(pe_output,
                         [issue |-> pe_pos, kind |-> "skipped", text |-> SkipReason(issue)])
                  /\ skipped_count' = skipped_count + 1
                  /\ UNCHANGED <<pe_update_calls, updated_count>>
    /\ pe_pos' = pe_pos + 1
    /\ UNCHANGED <<pe_perform_update, pe_issues, pe_summary, pe_pc, exceptEstimate>>

\* Lines 152-160.
Summary ==
    /\ pe_pc = "loop"
    /\ pe_pos > Len(pe_issues)
    /\ pe_summary' =
          IF pe_perform_update
          THEN <<[text |-> "Updated", count |-> updated_count],
                 [text |-> "Skipped", count |-> skipped_count]>>
          ELSE <<[text |-> "Would update", count |-> updated_count],
                 [text |-> "Would skip", count |-> skipped_count]>>
    /\ pe_pc' = "done"
    /\ UNCHANGED <<pe_perform_update, pe_issues, pe_pos, pe_update_calls, pe_output,
                   updated_count, skipped_count, exceptEstimate>>

NextEstimate == SearchFails \/ Search \/ ProcessIssue \/ Summary

SpecEstimate == InitEstimate /\ [][NextEstimate]_vars

\* C15: in a run without --perform-update issue.update is never called,
\* whatever the search returns, and every issue the loop has passed is
\* reported once, as 'would set' or as 'skipped'.
DryRunNeverUpdates ==
    ~pe_perform_update =>
        /\ pe_update_calls = <<>>
        /\ Len(pe_output) = pe_pos - 1
        /\ \A j \in 1..Len(pe_output) :
              /\ pe_output[j].issue = j
              /\ pe_output[j].kind \in {"would set", "skipped"}

DryRunNeverUpdatesWitness ==
    /\ ~pe_perform_update
    /\ pe_pc = "done"
    /\ \E j \in 1..Len(pe_output) : pe_output[j].kind = "would set"
    /\ \E j \in 1..Len(pe_output) : pe_output[j].kind = "skipped"

----------------------------------------------------------------------------
\* serviceConsumerAnalysis.py, DatadogClient: the request cache.

MAX_RETRIES_ON_500 == 3
RETRY_DELAY_SECONDS == 30
CACHE_MAX_AGE_SECONDS == 86400

\* time.time() when the run starts.
Now == 1000000

\* The buckets of page j of the server's answer; a bucket whose service is
\* "" has no service name.
PageBuckets(j) ==
    CASE j = 1 -> <<[service |-> "a", c0 |-> 5], [service |-> "", c0 |-> 1]>>
      [] j = 2 -> <<[service |-> "b", c0 |-> 7]>>
      [] OTHER -> <<[service |-> "a", c0 |-> j]>>

\* response.json() for page j of an answer of n pages: the buckets, and
\* meta.page.after, the cursor of the next page.
ServerPage(j, n) == [data |-> PageBuckets(j), after |-> IF j < n THEN j + 1 ELSE 0]

\* A file of the cache: its name ends in a timestamp or in something that is
\* not a number, it can be read as JSON or not, and it holds the first page
\* of an earlier answer.
CacheFileKinds ==
    [valid : {TRUE},
     time : {Now + 60, Now, Now - CACHE_MAX_AGE_SECONDS, Now - CACHE_MAX_AGE_SECONDS - 1},
     readable : BOOLEAN, data : {ServerPage(1, n) : n \in 1..MaxPages}]
    \cup [valid : {FALSE}, time : {0}, readable : BOOLEAN,
          data : {ServerPage(1, n) : n \in 1..MaxPages}]

\* The directories that can exist: two files whose names end in the same
\* timestamp are one file.
CacheDirs(k) ==
    {fs \in SubsetsUpTo(CacheFileKinds, k) :
        \A f, g \in fs : (f.valid /\ g.valid /\ f.time = g.time) => f = g}

\* Lines 338-349.
get_timestamp_from_filename(f) == IF f.valid THEN f.time ELSE 0

\* Line 351: max() returns one of the files with the largest key.
NewestFiles(files) ==
    {f \in files : \A g \in files :
        get_timestamp_from_filename(g) <= get_timestamp_from_filename(f)}

\* The test of lines 367 and 378 when no entry ever counts as expired.
NeverExpired(age_seconds) == FALSE

\* The test of lines 367 and 378.
Expired(age_seconds) == age_seconds > CACHE_MAX_AGE_SECONDS

\* Lines 353-384 for the file chosen at line 351.
ReadCacheFile(cache_file, files, now, ignore) ==
    IF ~cache_file.valid
    THEN [files |-> files, returned |-> None, log |-> "Invalid cache filename format"]
    ELSE LET age_seconds == now - cache_file.time
         IN  IF ~ignore /\ Expired(age_seconds)
             THEN [files |-> files \ {cache_file}, returned |-> None,
                   log |-> "Cache expired, deleting"]
             ELSE IF ~cache_file.readable
             THEN [files |-> files, returned |-> None, log |-> "Error reading cache file"]
             ELSE [files |-> files, returned |-> cache_file.data,
                   log |-> IF ignore /\ Expired(age_seconds)
                           THEN "Using expired cached response"
                           ELSE "Using cached response"]

\* Lines 318-384: what _get_cached_response may return, the files it leaves.
GetCachedResponses(files, now, use, ignore) ==
    IF ~use \/ files = {}
    THEN {[files |-> files, returned |-> None, log |-> ""]}
    ELSE {ReadCacheFile(f, files, now, ignore) : f \in NewestFiles(files)}

\* Lines 386-412: the old files of the key are deleted, the new one is named
\* after the current time.
SaveToCache(files, now, data) ==
    {[valid |-> TRUE, time |-> now, readable |-> TRUE, data |-> data]}

InitCache ==
    /\ use_cache \in BOOLEAN
    /\ ignore_cache_expiry \in BOOLEAN
    /\ cache_files \in CacheDirs(MaxCacheFiles)
    /\ dd_now = Now
    /\ dd_lookup = NoLookup
    /\ dd_pages = 1
    /\ retry_count = 0
    /\ dd_requests = <<>>
    /\ cursor = 0
    /\ all_consumers = <<>>
    /\ failed_500_errors = <<>>
    /\ dd_returned = <<>>
    /\ dd_earlier = None
    /\ dd_pc = "cache call"
    /\ DatadogOthersIdle

\* One call of _get_cached_response.
GetCachedResponse ==
    /\ dd_pc = "cache call"
    /\ \E look \in GetCachedResponses(cache_files, dd_now, use_cache, ignore_cache_expiry) :
          /\ dd_lookup' = [files |-> cache_files, returned |-> look.returned,
                           log |-> look.log]
          /\ cache_files' = look.files
    /\ dd_pc' = "cache returned"
    /\ UNCHANGED <<use_cache, ignore_cache_expiry, dd_now, dd_pages, retry_count,
                   dd_requests, cursor, all_consumers, failed_500_errors,
                   dd_returned, dd_earlier, exceptDatadog>>

NextCache == GetCachedResponse

SpecCache == InitCache /\ [][NextCache]_vars

\* The entries of the key that are newest by the timestamp of their names,
\* when the last call of _get_cached_response started.
NewestEntries ==
    {f \in dd_lookup.files : f.valid /\ \A g \in dd_lookup.files : g.valid => g.time <= f.time}

\* C18: _get_cached_response returns stored data only if use_cache is set
\* and the newest entry of the key is at most CACHE_MAX_AGE_SECONDS old or
\* ignore_cache_expiry is set; when it consults an older newest entry it
\* returns None and deletes that file, unless ignore_cache_expiry is set:
\* then it returns the expired data and keeps the file.
CacheExpiry ==
    dd_pc = "cache returned" =>
        /\ dd_lookup.returned # None =>
              /\ use_cache
              /\ \E f \in NewestEntries :
                    /\ dd_lookup.returned = f.data
                    /\ ignore_cache_expiry \/ dd_now - f.time <= CACHE_MAX_AGE_SECONDS
        /\ \A f \in NewestEntries :
              (use_cache /\ dd_now - f.time > CACHE_MAX_AGE_SECONDS) =>
                  IF ignore_cache_expiry
                  THEN /\ cache_files = dd_lookup.files
                       /\ f.readable => dd_lookup.returned = f.data
                  ELSE /\ dd_lookup.returned = None
                       /\ cache_files = dd_lookup.files \ {f}

CacheExpiryWitness ==
    /\ dd_pc = "cache returned"
    /\ ~ignore_cache_expiry
    /\ dd_lookup.returned = None
    /\ \E f \in NewestEntries :
          /\ dd_now - f.time = CACHE_MAX_AGE_SECONDS + 1
          /\ cache_files = dd_lookup.files \ {f}
          /\ cache_files # {}

----------------------------------------------------------------------------
\* serviceConsumerAnalysis.py, DatadogClient.query_service_consumers: one
\* top-level call, its recursive invocations and its pagination loop.

\* response.status_code, or the exception requests.post raised.
StatusCodes == {"200", "400", "401", "404", "429", "500", "503", "RequestException"}

\* Lines 758-812: the buckets that name a service, with their counts.
ParseAnalyticsResponse(data) ==
    LET named == SelectSeq(data.data, LAMBDA bucket : bucket.service # "")
    IN  [j \in 1..Len(named) |-> [service |-> named[j].service, count |-> named[j].c0]]

\* The requests of the call that were answered with the status.
Answered(kind, status) ==
    Cardinality({j \in 1..Len(dd_requests) :
                    dd_requests[j].kind = kind /\ dd_requests[j].status = status})

InitDatadog ==
    /\ use_cache \in BOOLEAN
    /\ ignore_cache_expiry \in BOOLEAN
    /\ cache_files \in CacheDirs(1)
    /\ dd_now = Now
    /\ dd_lookup = NoLookup
    /\ dd_pages \in 1..MaxPages
    /\ retry_count = 0
    /\ dd_requests = <<>>
    /\ cursor = 0
    /\ all_consumers = <<>>
    /\ failed_500_errors = <<>>
    /\ dd_returned = <<>>
    /\ dd_earlier = None
    /\ dd_pc = "enter"
    /\ DatadogOthersIdle

\* Lines 491-498: an invocation that the cache answers.
QueryFromCache ==
    /\ dd_pc = "enter"
    /\ \E look \in GetCachedResponses(cache_files, dd_now, use_cache, ignore_cache_expiry) :
          /\ look.returned # None
          /\ dd_lookup' = [files |-> cache_files, returned |-> look.returned,
                           log |-> look.log]
          /\ cache_files' = look.files
          /\ dd_returned' = ParseAnalyticsResponse(look.returned)
    /\ dd_pc' = "returned"
    /\ UNCHANGED <<use_cache, ignore_cache_expiry, dd_now, dd_pages, retry_count,
                   dd_requests, cursor, all_consumers, failed_500_errors,
                   dd_earlier, exceptDatadog>>

\* Lines 491-634: an invocation that the cache does not answer: the request
\* and what follows from its status, up to the return, the recursive call
\* or the first turn of the pagination loop.
QueryLive ==
    /\ dd_pc = "enter"
    /\ Len(dd_requests) < MaxRequests
    /\ \E look \in GetCachedResponses(cache_files, dd_now, use_cache, ignore_cache_expiry),
          status \in StatusCodes :
          /\ look.returned = None
          /\ dd_lookup' = [files |-> cache_files, returned |-> look.returned,
                           log |-> look.log]
          /\ dd_requests' = Append(dd_requests, [kind |-> "first", status |-> status])
          /\ CASE status = "429" ->
                    \* lines 532-535: the recursive call passes no retry_count
                    /\ dd_now' = dd_now + 5
                    /\ retry_count' = 0
                    /\ cache_files' = look.files
                    /\ dd_pc' = "enter"
                    /\ UNCHANGED <<cursor, all_consumers, failed_500_errors, dd_returned>>
               [] status = "200" ->
                    \* lines 541-557, and 595-596 when there is one page
                    LET data == ServerPage(1, dd_pages)
                    IN  /\ cache_files' = SaveToCache(look.files, dd_now, data)
                        /\ all_consumers' = ParseAnalyticsResponse(data)
                        /\ cursor' = data.after
                        /\ IF data.after = 0
                           THEN /\ dd_returned' = ParseAnalyticsResponse(data)
                                /\ dd_pc' = "returned"
                           ELSE /\ dd_pc' = "page"
                                /\ UNCHANGED dd_returned
                        /\ UNCHANGED <<dd_now, retry_count, failed_500_errors>>
               [] status = "500" /\ retry_count < MAX_RETRIES_ON_500 ->
                    \* lines 599-603
                    /\ dd_now' = dd_now + RETRY_DELAY_SECONDS
                    /\ retry_count' = retry_count + 1
                    /\ cache_files' = look.files
                    /\ dd_pc' = "enter"
                    /\ UNCHANGED <<cursor, all_consumers, failed_500_errors, dd_returned>>
               [] status = "500" /\ ~(retry_count < MAX_RETRIES_ON_500) ->
                    \* lines 604-622
                    /\ failed_500_errors' = Append(failed_500_errors,
                           [status_code |-> 500, attempts |-> MAX_RETRIES_ON_500 + 1])
                    /\ dd_returned' = <<>>
                    /\ cache_files' = look.files
                    /\ dd_pc' = "returned"
                    /\ UNCHANGED <<dd_now, retry_count, cursor, all_consumers>>
               [] OTHER ->
                    \* 400, 401, 404, another status, an exception: []
                    /\ dd_returned' = <<>>
                    /\ cache_files' = look.files
                    /\ dd_pc' = "returned"
                    /\ UNCHANGED <<dd_now, retry_count, cursor, all_consumers,
                                   failed_500_errors>>
    /\ UNCHANGED <<use_cache, ignore_cache_expiry, dd_pages, dd_earlier,
                   exceptDatadog>>

\* Lines 559-593: one turn of the pagination loop.
FetchPage ==
    /\ dd_pc = "page"
    /\ Len(dd_requests) < MaxRequests
    /\ \E status \in StatusCodes :
          /\ dd_requests' = Append(dd_requests, [kind |-> "page", status |-> status])
          /\ CASE status = "429" ->
                    /\ dd_now' = dd_now + 10
                    /\ UNCHANGED <<cursor, all_consumers, dd_returned, dd_pc>>
               [] status = "200" ->
                    LET page_data == ServerPage(cursor, dd_pages)
                        collected == all_consumers \o ParseAnalyticsResponse(page_data)
                    IN  /\ all_consumers' = collected
                        /\ cursor' = page_data.after
                        /\ IF page_data.after = 0
                           THEN dd_returned' = collected /\ dd_pc' = "returned"
                           ELSE UNCHANGED <<dd_returned, dd_pc>>
                        /\ UNCHANGED dd_now
               [] status = "RequestException" ->
                    \* caught at line 630: the pages collected are dropped
                    /\ dd_returned' = <<>>
                    /\ dd_pc' = "returned"
                    /\ UNCHANGED <<dd_now, cursor, all_consumers>>
               [] OTHER ->
                    \* lines 580-582: break, then line 596
                    /\ dd_returned' = all_consumers
                    /\ dd_pc' = "returned"
                    /\ UNCHANGED <<dd_now, cursor, all_consumers>>
    /\ UNCHANGED <<use_cache, ignore_cache_expiry, cache_files, dd_lookup, dd_pages,
                   retry_count, failed_500_errors, dd_earlier, exceptDatadog>>

NextDatadog == QueryFromCache \/ QueryLive \/ FetchPage

SpecDatadog == InitDatadog /\ [][NextDatadog]_vars

\* C17: within one top-level call a request answered 500 is retried at most
\* MAX_RETRIES_ON_500 times: at most MAX_RETRIES_ON_500 + 1 requests of the
\* call are answered 500, whatever the server answers, 429 answers between
\* the 500s included.
Retry500Bound == Answered("first", "500") <= MAX_RETRIES_ON_500 + 1

\* The time between two top-level calls for the same key: a moment, or long
\* enough for an entry written by the first to expire.
Elapsed == {1, CACHE_MAX_AGE_SECONDS + 1}

\* The client is called again with the same env, service, limit and
\* time_period, hence the same cache_key (lines 439-492): a new top-level
\* invocation with retry_count at its default and fresh locals.  The server
\* would answer as before.
QueryAgain ==
    /\ dd_pc = "returned"
    /\ dd_earlier = None
    /\ dd_earlier' = [saved |-> Answered("first", "200") > 0, returned |-> dd_returned]
    /\ \E elapsed \in Elapsed : dd_now' = dd_now + elapsed
    /\ retry_count' = 0
    /\ dd_requests' = <<>>
    /\ cursor' = 0
    /\ all_consumers' = <<>>
    /\ dd_pc' = "enter"
    /\ UNCHANGED <<use_cache, ignore_cache_expiry, cache_files, dd_lookup, dd_pages,
                   failed_500_errors, dd_returned, exceptDatadog>>

NextTwoCalls == QueryFromCache \/ QueryLive \/ FetchPage \/ QueryAgain

SpecTwoCalls == InitDatadog /\ [][NextTwoCalls]_vars

\* The second call has returned, answered from the cache entry that the
\* first call, a live one, wrote.
CachedAfterLive ==
    /\ dd_pc = "returned"
    /\ dd_earlier # None
    /\ dd_earlier.saved
    /\ dd_requests = <<>>
    /\ dd_lookup.returned # None

\* C22: a call answered from the cache returns the consumer list that the
\* live call which wrote the cache entry returned.
CacheEquivalence == CachedAfterLive => dd_returned = dd_earlier.returned

----------------------------------------------------------------------------
\* serviceConsumerAnalysis.py, ServiceConsumerAnalyzer.analyze_all_teams.

ServiceOrder == <<"a", "b", "c">>
Services == Range(ServiceOrder)

\* attribution_data: the domain of the team that owns an application, and
\* the system of the application.
TeamDomain(service_name) == IF service_name = "c" THEN "Domain 2" ELSE "Domain 1"
System(service_name) == IF service_name = "b" THEN "System 2" ELSE "System 1"

\* Lines 1397-1402: the product (or domain) of a calling service, after the
\* product mapping.
ConsumerGroup(consumer_service) ==
    CASE consumer_service = "a" -> "Product A"
      [] consumer_service = "b" -> "Product B"
      [] OTHER -> "External/Unknown"

\* The count Datadog reports for a caller of a target.
CallCount(target, caller) ==
    LET Index(name) == CASE name = "a" -> 1 [] name = "b" -> 2 [] OTHER -> 3
    IN  3 * (Index(target) - 1) + Index(caller)

\* What query_service_consumers returns for a service: its callers with
\* their counts.
Consumers(calls, service_name) ==
    LET callers == SelectSeq(ServiceOrder, LAMBDA c : <<service_name, c>> \in calls)
    IN  [j \in 1..Len(callers) |->
            [service |-> callers[j], count |-> CallCount(service_name, callers[j])]]

\* d[key] += n on a defaultdict(int), d[key].append(x) on a defaultdict(list).
AddAt(d, key, n) ==
    [k \in DOMAIN d \cup {key} |->
        (IF k \in DOMAIN d THEN d[k] ELSE 0) + (IF k = key THEN n ELSE 0)]
AppendAt(d, key, x) ==
    [k \in DOMAIN d \cup {key} |->
        IF k = key THEN Append(IF k \in DOMAIN d THEN d[k] ELSE <<>>, x) ELSE d[k]]

\* Lines 990-1023, for the teams of attribution_data.
IsServiceFromExcludedTeam(apps, exclude_team, service_name) ==
    exclude_team /\ service_name \in Range(apps)

\* Line 1393 when the calling service is never looked up in the skip list.
SkipsCallerNever(consumer_service, skip) == FALSE

\* Line 1393.
SkipsCaller(consumer_service, skip) == consumer_service \in skip

\* Lines 1384-1434: the body of the loop over the consumers.
ProcessConsumer(agg, apps, service_name, consumer, skip, exclude_team, excl_products) ==
    LET consumer_service == consumer.service
        call_count == consumer.count
        team_domain == TeamDomain(service_name)
        system == System(service_name)
        consumer_group == ConsumerGroup(consumer_service)
        is_excluded ==
            \/ IsServiceFromExcludedTeam(apps, exclude_team, consumer_service)
            \/ consumer_group = "External/Unknown"
            \/ Lower(consumer_group) \in excl_products
    IN  IF consumer_service = service_name THEN agg
        ELSE IF SkipsCaller(consumer_service, skip) THEN agg
        ELSE IF is_excluded
        THEN [agg EXCEPT
                 !.domain_consumers = AddAt(@, <<team_domain, consumer_group>>, 0),
                 !.domain_details = AppendAt(@, <<team_domain, consumer_group>>,
                     [target_service |-> service_name,
                      calling_service |-> consumer_service,
                      excluded_count |-> call_count])]
        ELSE [agg EXCEPT
                 !.domain_consumers = AddAt(@, <<team_domain, consumer_group>>, call_count),
                 !.system_consumers = AddAt(@, <<team_domain, system>>, call_count),
                 !.system_details = AddAt(@, <<team_domain, system, service_name>>, call_count),
                 !.domain_details = AppendAt(@, <<team_domain, consumer_group>>,
                     [target_service |-> service_name,
                      calling_service |-> consumer_service,
                      count |-> call_count])]

RECURSIVE ProcessConsumers(_, _, _, _, _, _, _)
ProcessConsumers(agg, apps, service_name, consumers, skip, exclude_team, excl_products) ==
    IF consumers = <<>> THEN agg
    ELSE ProcessConsumers(
             ProcessConsumer(agg, apps, service_name, Head(consumers), skip,
                             exclude_team, excl_products),
             apps, service_name, Tail(consumers), skip, exclude_team, excl_products)

DistinctSeqs(S, n) ==
    {q \in SeqsUpTo(S, n) : \A i, j \in 1..Len(q) : q[i] = q[j] => i = j}

InitAnalyzer ==
    /\ an_apps \in DistinctSeqs(Services, MaxApps)
    /\ an_calls \in SubsetsUpTo(Services \X Services, MaxCalls)
    /\ skip_applications \in SUBSET Services
    /\ exclude_team_requests \in BOOLEAN
    /\ exclude_products \in SUBSET {"product b"}
    /\ an_pos = 1
    /\ an_queried = <<>>
    /\ an_result = EmptyAggregation
    /\ skipped = 0
    /\ an_pc = "loop"
    /\ AnalyzerOthersIdle

\* Lines 1361-1372: an application of the skip list.
SkipApplication ==
    /\ an_pc = "loop"
    /\ an_pos <= Len(an_apps)
    /\ an_apps[an_pos] \in skip_applications
    /\ skipped' = skipped + 1
    /\ an_pos' = an_pos + 1
    /\ UNCHANGED <<an_apps, an_calls, skip_applications, exclude_team_requests,
                   exclude_products, an_queried, an_result, an_pc, exceptAnalyzer>>

\* Lines 1361-1436: any other application: the query and its consumers.
AnalyzeApplication ==
    /\ an_pc = "loop"
    /\ an_pos <= Len(an_apps)
    /\ an_apps[an_pos] \notin skip_applications
    /\ LET service_name == an_apps[an_pos]
       IN  /\ an_queried' = Append(an_queried, service_name)
           /\ an_result' = ProcessConsumers(an_result, an_apps, service_name,
                                Consumers(an_calls, service_name), skip_applications,
                                exclude_team_requests, exclude_products)
    /\ an_pos' = an_pos + 1
    /\ UNCHANGED <<an_apps, an_calls, skip_applications, exclude_team_requests,
                   exclude_products, skipped, an_pc, exceptAnalyzer>>

\* Lines 1439-1447.
ReturnResults ==
    /\ an_pc = "loop"
    /\ an_pos > Len(an_apps)
    /\ an_pc' = "returned"
    /\ UNCHANGED <<an_apps, an_calls, skip_applications, exclude_team_requests,
                   exclude_products, an_pos, an_queried, an_result, skipped,
                   exceptAnalyzer>>

NextAnalyzer == SkipApplication \/ AnalyzeApplication \/ ReturnResults

SpecAnalyzer == InitAnalyzer /\ [][NextAnalyzer]_vars

\* The calls that involve no application of the skip list.
CallsKept == {c \in an_calls : c[1] \notin skip_applications /\ c[2] \notin skip_applications}

\* The aggregation of the first n applications on the calls given, with an
\* empty skip list.
RECURSIVE AggregationOf(_, _)
AggregationOf(n, calls) ==
    IF n = 0 THEN EmptyAggregation
    ELSE ProcessConsumers(AggregationOf(n - 1, calls), an_apps, an_apps[n],
                          Consumers(calls, an_apps[n]), {},
                          exclude_team_requests, exclude_products)

\* C20: the calls whose target or caller is in skip-applications add nothing
\* to domain_consumers, system_consumers, domain_details and system_details:
\* the four are what they would be had those calls not existed; and a
\* service of the skip list is never queried.
SkipApplicationsContributeNothing ==
    /\ an_result = AggregationOf(an_pos - 1, CallsKept)
    /\ \A j \in 1..Len(an_queried) : an_queried[j] \notin skip_applications

SkipApplicationsContributeNothingWitness ==
    /\ an_pc = "returned"
    /\ skipped > 0
    /\ \E c \in an_calls :
          /\ c[1] \in Range(an_queried)
          /\ c[2] \in skip_applications
          /\ c[2] # c[1]
    /\ DOMAIN an_result.domain_consumers # {}

----------------------------------------------------------------------------
\* standardTicketCreator.py: main, process_all_sheets,
\* process_team_category_from_backstage, create_single_ticket,
\* create_jira_ticket, link_to_epic.

\* A row of the Teams sheet: whether it names a Project, an Assignee and an
\* Epic Link, and how many categories Backstage has data for.
TeamConfigs ==
    [project : BOOLEAN, assignee : BOOLEAN, epic_link : BOOLEAN,
     categories : 0..MaxCategories]

\* How Jira answers the calls made for one ticket.
JiraOutcomes ==
    [create : {"ok", "HTTPError", "error"},
     link : {"field", "Epic-Story Link", "Relates to", "none"}]

\* Lines 1707-1735: the calls link_to_epic makes until one succeeds.
LinkToEpic(n, link) ==
    LET field == [call |-> "update_issue_field", ticket |-> n]
        epic == [call |-> "create_issue_link", ticket |-> n]
    IN  CASE link = "field" -> <<field>>
          [] link = "Epic-Story Link" -> <<field, epic>>
          [] OTHER -> <<field, epic, epic>>

\* Lines 2068-2135: the calls create_jira_ticket makes for ticket n.
CreateJiraTicket(n, team_config, outcome) ==
    <<[call |-> "create_issue", ticket |-> n]>> \o
    (IF outcome.create # "ok" THEN <<>>
     ELSE (IF team_config.assignee
           THEN <<[call |-> "assign_issue", ticket |-> n]>> ELSE <<>>) \o
          (IF team_config.epic_link THEN LinkToEpic(n, outcome.link) ELSE <<>>))

\* Lines 2351-2395: create_single_ticket returns before any call when it is
\* not in create mode.
CreateSingleTicket(n, team_config, create_mode, outcome) ==
    IF ~team_config.project THEN <<>>
    ELSE IF ~create_mode THEN <<>>
    ELSE CreateJiraTicket(n, team_config, outcome)

\* Line 3616 when the CSV option is never looked at.
CsvExportModeNever(csv_file) == FALSE

\* Line 3616: if args.csv_file.
CsvExportMode(csv_file) == csv_file # ""

\* Lines 3409-3430: the rows collected for the CSV file.
RECURSIVE CollectedRows(_, _)
CollectedRows(teams, n) ==
    IF n = 0 THEN 0
    ELSE CollectedRows(teams, n - 1) +
         (IF teams[n].project THEN teams[n].categories ELSE 0)

InitCreator ==
    /\ tc_create \in BOOLEAN
    /\ tc_csv_file \in {"", "tickets.csv"}
    /\ tc_backstage_url \in BOOLEAN
    /\ tc_teams \in SeqsUpTo(TeamConfigs, MaxTeams)
    /\ tc_team = 1
    /\ tc_category = 1
    /\ jira_calls = <<>>
    /\ all_created_tickets = 0
    /\ all_skipped_tickets = 0
    /\ total_dry_run_count = 0
    /\ all_tickets_data = 0
    /\ tc_pc = "start"
    /\ CreatorOthersIdle

\* Lines 3615-3634: the CSV export mode; --create is ignored and main
\* returns before a Jira client exists.
ExportCsv ==
    /\ tc_pc = "start"
    /\ CsvExportMode(tc_csv_file)
    /\ all_tickets_data' =
          IF tc_backstage_url THEN CollectedRows(tc_teams, Len(tc_teams)) ELSE 0
    /\ tc_pc' = "exported"
    /\ UNCHANGED <<tc_create, tc_csv_file, tc_backstage_url, tc_teams, tc_team,
                   tc_category, jira_calls, all_created_tickets,
                   all_skipped_tickets, total_dry_run_count, exceptCreator>>

\* Lines 3636-3651 and 2886-2906: the confirmation (asked in create mode
\* only), the Jira client, and the start of process_all_sheets.
StartProcessing ==
    /\ tc_pc = "start"
    /\ ~CsvExportMode(tc_csv_file)
    /\ \E confirm \in {"y", "Y", "n"}, connect \in {"ok", "error"} :
          tc_pc' = IF tc_create /\ Lower(confirm) # "y" THEN "cancelled"
                   ELSE IF connect = "error" THEN "connect failed"
                   ELSE IF ~tc_backstage_url THEN "done"
                   ELSE "teams"
    /\ UNCHANGED <<tc_create, tc_csv_file, tc_backstage_url, tc_teams, tc_team,
                   tc_category, jira_calls, all_created_tickets,
                   all_skipped_tickets, total_dry_run_count, all_tickets_data,
                   exceptCreator>>

\* Lines 2920-2943: a team Backstage has no data for.
TeamWithoutData ==
    /\ tc_pc = "teams"
    /\ tc_team <= Len(tc_teams)
    /\ tc_teams[tc_team].categories = 0
    /\ all_skipped_tickets' = all_skipped_tickets + 1
    /\ tc_team' = tc_team + 1
    /\ UNCHANGED <<tc_create, tc_csv_file, tc_backstage_url, tc_teams, tc_category,
                   jira_calls, all_created_tickets, total_dry_run_count,
                   all_tickets_data, tc_pc, exceptCreator>>

\* Lines 2927-2939 and 2947-3082: one team and category.  In create mode
\* the pair create_single_ticket returns is appended to the created tickets
\* and its missing ticket_id then raises, so the ticket is listed as
\* skipped too (lines 3060-3062 and 3077-3079).
ProcessTeamCategory ==
    /\ tc_pc = "teams"
    /\ tc_team <= Len(tc_teams)
    /\ tc_teams[tc_team].categories > 0
    /\ LET team_config == tc_teams[tc_team]
           n == all_created_tickets + 1
       IN  \E malformed \in BOOLEAN, outcome \in JiraOutcomes :
              IF malformed \/ ~team_config.project
              THEN /\ all_skipped_tickets' = all_skipped_tickets + 1
                   /\ UNCHANGED <<jira_calls, all_created_tickets, total_dry_run_count>>
              ELSE IF tc_create
              THEN /\ jira_calls' = jira_calls \o
                          CreateSingleTicket(n, team_config, tc_create, outcome)
                   /\ all_created_tickets' = all_created_tickets + 1
                   /\ all_skipped_tickets' = all_skipped_tickets + 1
                   /\ UNCHANGED total_dry_run_count
              ELSE /\ total_dry_run_count' = total_dry_run_count + 1
                   /\ all_created_tickets' = all_created_tickets + 1
                   /\ UNCHANGED <<jira_calls, all_skipped_tickets>>
    /\ IF tc_category < tc_teams[tc_team].categories
       THEN tc_category' = tc_category + 1 /\ UNCHANGED tc_team
       ELSE tc_category' = 1 /\ tc_team' = tc_team + 1
    /\ UNCHANGED <<tc_create, tc_csv_file, tc_backstage_url, tc_teams,
                   all_tickets_data, tc_pc, exceptCreator>>

\* Lines 2945 and 3653-3656: the loop is over, the summary is printed.
FinishProcessing ==
    /\ tc_pc = "teams"
    /\ tc_team > Len(tc_teams)
    /\ tc_pc' = "done"
    /\ UNCHANGED <<tc_create, tc_csv_file, tc_backstage_url, tc_teams, tc_team,
                   tc_category, jira_calls, all_created_tickets,
                   all_skipped_tickets, total_dry_run_count, all_tickets_data,
                   exceptCreator>>

NextCreator ==
    ExportCsv \/ StartProcessing \/ TeamWithoutData \/ ProcessTeamCategory
        \/ FinishProcessing

SpecCreator == InitCreator /\ [][NextCreator]_vars

\* C14: a run without --create makes no call that changes Jira
\* (create_issue, assign_issue, create_issue_link, nor the field update of
\* the epic link), whatever the teams, categories and Backstage data; nor
\* does a run in CSV export mode, --create given or not.
DryRunMakesNoJiraCall ==
    (~tc_create \/ tc_csv_file # "") => jira_calls = <<>>

DryRunMakesNoJiraCallWitness ==
    /\ ~tc_create
    /\ tc_csv_file = ""
    /\ tc_pc = "done"
    /\ total_dry_run_count > 0
    /\ \E j \in 1..Len(tc_teams) : tc_teams[j].assignee /\ tc_teams[j].epic_link

====
